---- MODULE Spec2Model ----
(***************************************************************************)
(* A model of the minigo tree-walking interpreter (package interpreter,    *)
(* the variant with a package registry, per-file import tables and a call  *)
(* history).  Statements are executed one step at a time; an expression is *)
(* evaluated in one step by the recursive operator EvalExpr, which threads *)
(* the output sink through the evaluation.                                 *)
(*                                                                         *)
(* Strings are sequences of one-character strings.  A Go error is the      *)
(* sequence of its wrapping layers, outermost first; <<>> is the nil error.*)
(* A panic (an abnormal abort that no code of the package recovers) is a   *)
(* flag of its own, never an error value.                                  *)
(***************************************************************************)
EXTENDS Integers, Sequences, FiniteSets, TLC

VARIABLES
    frames,     \* evaluator.scope.frames : the stack of lexical frames
    packages,   \* evaluator.packages     : import path -> Package
    history,    \* evaluator.history      : stack of *File
    stdout,     \* evaluator.stdout       : the lines written so far
    pc,         \* where the interpreter is: idle, run, fail, panic, aborted
    control,    \* the Go call stack of runFunc / EvalStmt(BlockStmt) loops
    err,        \* the error being returned (while pc = "fail")
    cur,        \* RunFile's arguments and locals for the call in progress
    log         \* one record per RunFile call that returned

vars == <<frames, packages, history, stdout, pc, control, err, cur, log>>

\* The number of RunFile calls made on one interpreter.
MaxRuns == 2

-----------------------------------------------------------------------------
(* Values: reflect.Value, by reflect.Kind.                                 *)

zero == [kind |-> "invalid"]
BoolV(b) == [kind |-> "bool", b |-> b]
IntV(n) == [kind |-> "int", n |-> n]
Int64V(n) == [kind |-> "int64", n |-> n]
\* A float64 that is a multiple of one half, held as the number of halves.
Float64V(h) == [kind |-> "float64", h |-> h]
StringV(s) == [kind |-> "string", s |-> s]
FuncV(f) == [kind |-> "func", fn |-> f]

IsValid(v) == v.kind # "invalid"

\* One layer of an error: the message of the fmt.Errorf call, with the names
\* (s, t) and the number (n) it formats; "" and 0 where it formats none.
NilErr == <<>>
Errorf(m, s, t, n) == <<[m |-> m, s |-> s, t |-> t, n |-> n]>>
Wrapf(m, s, t, n, e) == Errorf(m, s, t, n) \o e

-----------------------------------------------------------------------------
(* Text conversions.                                                       *)

Digit == [c \in {"0", "1", "2", "3", "4", "5", "6", "7", "8", "9"} |->
            CASE c = "0" -> 0 [] c = "1" -> 1 [] c = "2" -> 2 [] c = "3" -> 3
              [] c = "4" -> 4 [] c = "5" -> 5 [] c = "6" -> 6 [] c = "7" -> 7
              [] c = "8" -> 8 [] c = "9" -> 9]

DigitChar == <<"0", "1", "2", "3", "4", "5", "6", "7", "8", "9">>

AllDigits(s) == \A i \in 1..Len(s) : s[i] \in DOMAIN Digit

RECURSIVE DecimalValue(_)
DecimalValue(s) ==
    IF s = <<>> THEN 0
    ELSE 10 * DecimalValue(SubSeq(s, 1, Len(s) - 1)) + Digit[s[Len(s)]]

\* strconv.Atoi: an optional sign and decimal digits, anything else fails.
Atoi(s) ==
    LET body == IF s # <<>> /\ s[1] \in {"+", "-"} THEN Tail(s) ELSE s
    IN  IF body = <<>> \/ ~AllDigits(body)
        THEN [ok |-> FALSE, n |-> 0]
        ELSE [ok |-> TRUE,
              n |-> IF s[1] = "-" THEN 0 - DecimalValue(body)
                    ELSE DecimalValue(body)]

\* strconv.ParseFloat on the decimal forms "d+" and "d+.f" with f one of 0
\* and 5 (the values a float64 holds exactly); the result is in halves.
\* Text with any other character fails.
ParseFloat(s) ==
    LET dots == {i \in 1..Len(s) : s[i] = "."}
    IN  IF dots = {}
        THEN IF s # <<>> /\ AllDigits(s)
             THEN [ok |-> TRUE, h |-> 2 * DecimalValue(s)]
             ELSE [ok |-> FALSE, h |-> 0]
        ELSE LET d == CHOOSE i \in dots : TRUE
                 ip == SubSeq(s, 1, d - 1)
                 fp == SubSeq(s, d + 1, Len(s))
             IN  IF Cardinality(dots) = 1 /\ ip # <<>> /\ AllDigits(ip)
                    /\ fp \in {<<"0">>, <<"5">>}
                 THEN [ok |-> TRUE,
                       h |-> 2 * DecimalValue(ip) + (IF fp = <<"5">> THEN 1 ELSE 0)]
                 ELSE [ok |-> FALSE, h |-> 0]

RECURSIVE Itoa(_)
Itoa(n) ==
    IF n < 0 THEN <<"-">> \o Itoa(0 - n)
    ELSE IF n < 10 THEN <<DigitChar[n + 1]>>
    ELSE Itoa(n \div 10) \o <<DigitChar[(n % 10) + 1]>>

ToUpperChar(c) ==
    CASE c = "a" -> "A" [] c = "b" -> "B" [] c = "h" -> "H" [] c = "i" -> "I"
      [] c = "s" -> "S" [] OTHER -> c

\* strings.ToUpper
ToUpper(s) == [i \in 1..Len(s) |-> ToUpperChar(s[i])]

\* The %v text of a value, as fmt.Fprintln writes an operand.  The text of
\* a func value is its address, which the build decides; it is held as a
\* single mark.
Sprint(v) ==
    CASE v.kind = "bool" -> IF v.b THEN <<"t", "r", "u", "e">>
                            ELSE <<"f", "a", "l", "s", "e">>
      [] v.kind \in {"int", "int64"} -> Itoa(v.n)
      [] v.kind = "float64" ->
            IF v.h % 2 = 0 THEN Itoa(v.h \div 2)
            ELSE Itoa(v.h \div 2) \o <<".", "5">>
      [] v.kind = "string" -> v.s
      [] OTHER -> <<"0x">>

\* fmt.Fprintln's line for the operands: their texts joined by one space.
RECURSIVE Sprintln(_)
Sprintln(args) ==
    IF args = <<>> THEN <<>>
    ELSE IF Len(args) = 1 THEN Sprint(args[1])
    ELSE Sprint(args[1]) \o <<" ">> \o Sprintln(Tail(args))

-----------------------------------------------------------------------------
(* The syntax tree (go/ast), as far as the interpreter reads it.           *)

BasicLit(kind, value) == [t |-> "*ast.BasicLit", kind |-> kind, value |-> value]
Ident(name) == [t |-> "*ast.Ident", name |-> name]
BinaryExpr(x, op, y) == [t |-> "*ast.BinaryExpr", x |-> x, op |-> op, y |-> y]
CallExpr(fun, args) == [t |-> "*ast.CallExpr", fun |-> fun, args |-> args]
SelectorExpr(x, sel) == [t |-> "*ast.SelectorExpr", x |-> x, sel |-> sel]
ParenExpr(x) == [t |-> "*ast.ParenExpr", x |-> x]

ExprStmt(line, x) == [t |-> "*ast.ExprStmt", line |-> line, x |-> x]
BlockStmt(line, list) == [t |-> "*ast.BlockStmt", line |-> line, list |-> list]
AssignStmt(line, lhs, rhs) ==
    [t |-> "*ast.AssignStmt", line |-> line, lhs |-> lhs, rhs |-> rhs]
ReturnStmt(line) == [t |-> "*ast.ReturnStmt", line |-> line]

FuncDecl(name, body) == [t |-> "*ast.FuncDecl", name |-> name, body |-> body]
GenDecl == [t |-> "*ast.GenDecl"]
\* An import spec: name is "" when the import gives none (im.Name == nil);
\* path is the literal's text, quotes included.
ImportSpec(name, path) == [name |-> name, path |-> path]
AstFile(id, filename, imports, decls) ==
    [id |-> id, filename |-> filename, imports |-> imports, decls |-> decls]

-----------------------------------------------------------------------------
(* scope                                                                   *)

\* A frame is a Go map; root marks the map that New creates.
RootFrame ==
    [root |-> TRUE,
     vars |-> [n \in {"true", "false", "println"} |->
                 CASE n = "true" -> BoolV(TRUE)
                   [] n = "false" -> BoolV(FALSE)
                   [] n = "println" -> FuncV("println")]]
EmptyFrame == [root |-> FALSE, vars |-> <<>>]

Push(fs) == Append(fs, EmptyFrame)
Pop(fs) == SubSeq(fs, 1, Len(fs) - 1)
\* A Set that rebinds the name where a frame already holds it.
SetWhereBound(fs, name, value) ==
    LET binders == {i \in 1..Len(fs) : name \in DOMAIN fs[i].vars}
        n == IF binders = {} THEN Len(fs)
             ELSE CHOOSE i \in binders : \A j \in binders : j <= i
    IN  [fs EXCEPT ![n].vars = (name :> value) @@ @]

Set(fs, name, value) ==
    [fs EXCEPT ![Len(fs)].vars = (name :> value) @@ @]

RECURSIVE GetFrom(_, _, _)
GetFrom(fs, n, name) ==
    IF n < 1 THEN [val |-> zero, ok |-> FALSE]
    ELSE IF name \in DOMAIN fs[n].vars
         THEN [val |-> fs[n].vars[name], ok |-> TRUE]
         ELSE GetFrom(fs, n - 1, name)

\* A Get that searches from the root frame upwards.
RECURSIVE GetUpFrom(_, _, _)
GetUpFrom(fs, n, name) ==
    IF n > Len(fs) THEN [val |-> zero, ok |-> FALSE]
    ELSE IF name \in DOMAIN fs[n].vars
         THEN [val |-> fs[n].vars[name], ok |-> TRUE]
         ELSE GetUpFrom(fs, n + 1, name)
GetOutermost(fs, name) == GetUpFrom(fs, 1, name)

Get(fs, name) == GetFrom(fs, Len(fs), name)

-----------------------------------------------------------------------------
(* Package registry                                                        *)

Package(name, path, decls, files) ==
    [Name |-> name, Path |-> path, Decls |-> decls, Files |-> files]
File(name, node, imports) == [Name |-> name, Node |-> node, Imports |-> imports]

FmtPackage ==
    Package("fmt", <<"fmt">>, [n \in {"Println"} |-> FuncV("fmt.Println")], <<>>)
StringsPackage ==
    Package("strings", <<"strings">>,
            [n \in {"ToUpper"} |-> FuncV("strings.ToUpper")], <<>>)

StdlibPrefix == <<"github.com", "/", "podhmo", "/", "minigo", "/", "stdlib", "/">>
MainPath == <<"main">>

InitPackages ==
    (<<"fmt">> :> FmtPackage) @@ (<<"strings">> :> StringsPackage)
    @@ ((StdlibPrefix \o <<"strings">>) :> StringsPackage)
    @@ ((StdlibPrefix \o <<"fmt">>) :> FmtPackage)

-----------------------------------------------------------------------------
(* Expression evaluator                                                    *)

\* An evaluation's outcome: the value, the error, whether it panicked, and
\* the output sink after it.
Ok(v, out) == [v |-> v, err |-> NilErr, panic |-> FALSE, out |-> out]
Fail(e, out) == [v |-> zero, err |-> e, panic |-> FALSE, out |-> out]
Panic(out) == [v |-> zero, err |-> NilErr, panic |-> TRUE, out |-> out]

\* reflect.Value.Call on the callables the registry and the root frame hold.
\* It panics on a receiver that is no func, on a zero Value argument, and on
\* arguments that do not fit the function's parameters.
Call(rfn, args, out) ==
    IF rfn.kind # "func" THEN [panic |-> TRUE, out |-> <<>>, stdout |-> out]
    ELSE IF \E i \in 1..Len(args) : ~IsValid(args[i])
    THEN [panic |-> TRUE, out |-> <<>>, stdout |-> out]
    ELSE IF rfn.fn \in {"println", "fmt.Println"}
    THEN LET line == Sprintln(args)
         IN  [panic |-> FALSE,
              out |-> <<IntV(Len(line) + 1), [kind |-> "interface"]>>,
              stdout |-> Append(out, line)]
    ELSE IF Len(args) # 1 \/ args[1].kind # "string"
    THEN [panic |-> TRUE, out |-> <<>>, stdout |-> out]
    ELSE [panic |-> FALSE, out |-> <<StringV(ToUpper(args[1].s))>>, stdout |-> out]

\* rfn.Call(args) and the choice of the result, as both call sites do it.
Invoke(rfn, args, out) ==
    LET r == Call(rfn, args, out)
    IN  IF r.panic THEN Panic(r.stdout)
        ELSE IF Len(r.out) = 0 THEN Ok(zero, r.stdout)
        ELSE Ok(r.out[1], r.stdout)

evalBasicLit(expr, out) ==
    CASE expr.kind = "INT" ->
            LET r == Atoi(expr.value)
            IN  IF ~r.ok THEN Fail(Errorf("failed to convert int", "", "", 0), out)
                ELSE Ok(IntV(r.n), out)
      [] expr.kind = "FLOAT" ->
            LET r == ParseFloat(expr.value)
            IN  IF ~r.ok THEN Fail(Errorf("failed to convert float", "", "", 0), out)
                ELSE Ok(Float64V(r.h), out)
      [] expr.kind = "STRING" ->
            Ok(StringV(SubSeq(expr.value, 2, Len(expr.value) - 1)), out)
      [] OTHER -> Fail(Errorf("unsupported basic lit kind", expr.kind, "", 0), out)

\* An identifier lookup that yields the zero Value for an unbound name.
evalIdentLenient(expr, out) == Ok(Get(frames, expr.name).val, out)

evalIdent(expr, out) ==
    LET r == Get(frames, expr.name)
    IN  IF ~r.ok THEN Fail(Errorf("undefined variable", expr.name, "", 0), out)
        ELSE Ok(r.val, out)

IntKinds == {"int", "int8", "int16", "int32", "int64"}
UintKinds == {"uint", "uint8", "uint16", "uint32", "uint64"}
FloatKinds == {"float64", "float32"}

\* An addition that turns operands of different kinds into their texts.
applyOpCoercing(op, x, y) ==
    IF op = "ADD" /\ IsValid(x) /\ IsValid(y) /\ x.kind # y.kind
    THEN [v |-> StringV(Sprint(x) \o Sprint(y)), err |-> NilErr]
    ELSE IF ~IsValid(x) \/ ~IsValid(y) \/ x.kind # y.kind
    THEN [v |-> zero, err |-> Errorf("invalid reflect.Value", "", "", 0)]
    ELSE IF op = "ADD" /\ x.kind \in {"int", "int64"}
    THEN [v |-> Int64V(x.n + y.n), err |-> NilErr]
    ELSE IF op = "ADD" /\ x.kind = "float64"
    THEN [v |-> Float64V(x.h + y.h), err |-> NilErr]
    ELSE IF op = "ADD" /\ x.kind = "string"
    THEN [v |-> StringV(x.s \o y.s), err |-> NilErr]
    ELSE IF op \in {"LOR", "LAND"} /\ x.kind = "bool"
    THEN [v |-> BoolV(IF op = "LOR" THEN x.b \/ y.b ELSE x.b /\ y.b), err |-> NilErr]
    ELSE [v |-> zero, err |-> Errorf("unsupported types", x.kind, y.kind, 0)]

\* evalBinaryExpr once both operands are evaluated.  Sums stay far inside
\* the 64 bits of x.Int() + y.Int().
applyOp(op, x, y) ==
    IF ~IsValid(x) \/ ~IsValid(y) \/ x.kind # y.kind
    THEN [v |-> zero, err |-> Errorf("invalid reflect.Value", "", "", 0)]
    ELSE CASE op = "ADD" ->
                CASE x.kind \in IntKinds ->
                        [v |-> Int64V(x.n + y.n), err |-> NilErr]
                  [] x.kind \in UintKinds ->
                        [v |-> [kind |-> "uint64", n |-> x.n + y.n], err |-> NilErr]
                  [] x.kind \in FloatKinds ->
                        [v |-> Float64V(x.h + y.h), err |-> NilErr]
                  [] x.kind = "string" ->
                        [v |-> StringV(x.s \o y.s), err |-> NilErr]
                  [] OTHER ->
                        [v |-> zero, err |-> Errorf("unsupported types", x.kind, y.kind, 0)]
           [] op = "LOR" ->
                IF x.kind = "bool" THEN [v |-> BoolV(x.b \/ y.b), err |-> NilErr]
                ELSE [v |-> zero, err |-> Errorf("unsupported types", x.kind, y.kind, 0)]
           [] op = "LAND" ->
                IF x.kind = "bool" THEN [v |-> BoolV(x.b /\ y.b), err |-> NilErr]
                ELSE [v |-> zero, err |-> Errorf("unsupported types", x.kind, y.kind, 0)]
           [] OTHER -> [v |-> zero, err |-> Errorf("unsupported operator", op, "", 0)]

RECURSIVE EvalExpr(_, _)
RECURSIVE evalArgs(_, _, _, _)

\* The argument loop of evalCallExpr, from argument i on; acc holds the
\* values of the arguments before i.
evalArgs(args, i, acc, out) ==
    IF i > Len(args) THEN [args |-> acc, err |-> NilErr, panic |-> FALSE, out |-> out]
    ELSE LET r == EvalExpr(args[i], out)
         IN  IF r.panic
             THEN [args |-> acc, err |-> NilErr, panic |-> TRUE, out |-> r.out]
             ELSE IF r.err # NilErr
             THEN [args |-> acc, panic |-> FALSE, out |-> r.out,
                   err |-> Wrapf("failed to eval argument", "", "", i - 1, r.err)]
             ELSE evalArgs(args, i + 1, Append(acc, r.v), r.out)

\* The callee named by a bare identifier.
callIdent(ident, args, out) ==
    LET r == Get(frames, ident.name)
    IN  IF r.ok THEN Invoke(r.val, args, out)
        ELSE Fail(Errorf("unsupported function", ident.name, "", 0), out)

\* A selector call that takes the alias itself for the import path.
callSelectorByName(sel, args, out) ==
    IF sel.x.t = "*ast.Ident"
    THEN IF <<sel.x.name>> \in DOMAIN packages
         THEN IF sel.sel \in DOMAIN packages[<<sel.x.name>>].Decls
              THEN Invoke(packages[<<sel.x.name>>].Decls[sel.sel], args, out)
              ELSE Fail(Errorf("unsupported function", sel.x.name, sel.sel, 0), out)
         ELSE Fail(Errorf("unsupported function:", sel.x.name, sel.sel, 0), out)
    ELSE Fail(Errorf("unsupported function:", sel.x.t, sel.sel, 0), out)

\* The callee named by a selector expression.
callSelector(sel, args, out) ==
    IF sel.x.t = "*ast.Ident"
    THEN IF history = <<>> THEN Panic(out)
         ELSE LET imports == history[Len(history)].Imports
                  pkgPath == IF sel.x.name \in DOMAIN imports
                             THEN imports[sel.x.name] ELSE <<>>
              IN  IF pkgPath \in DOMAIN packages
                  THEN IF sel.sel \in DOMAIN packages[pkgPath].Decls
                       THEN Invoke(packages[pkgPath].Decls[sel.sel], args, out)
                       ELSE Fail(Errorf("unsupported function", sel.x.name, sel.sel, 0), out)
                  ELSE Fail(Errorf("unsupported function:", sel.x.name, sel.sel, 0), out)
    ELSE Fail(Errorf("unsupported function:", sel.x.t, sel.sel, 0), out)

evalCallExpr(expr, out) ==
    LET a == evalArgs(expr.args, 1, <<>>, out)
    IN  IF a.panic THEN Panic(a.out)
        ELSE IF a.err # NilErr THEN Fail(a.err, a.out)
        ELSE CASE expr.fun.t = "*ast.Ident" -> callIdent(expr.fun, a.args, a.out)
               [] expr.fun.t = "*ast.SelectorExpr" -> callSelector(expr.fun, a.args, a.out)
               [] OTHER -> Fail(Errorf("unsupported function", expr.fun.t, "", 0), a.out)

\* A binary expression whose || and && leave the right operand alone when
\* the left one decides.
evalBinaryExprShortCircuit(expr, out) ==
    LET x == EvalExpr(expr.x, out)
    IN  IF x.panic THEN Panic(x.out)
        ELSE IF x.err # NilErr
        THEN Fail(Wrapf("failed to eval binary expr lhs", "", "", 0, x.err), x.out)
        ELSE IF \/ expr.op = "LOR" /\ x.v = BoolV(TRUE)
                \/ expr.op = "LAND" /\ x.v = BoolV(FALSE)
        THEN Ok(x.v, x.out)
        ELSE LET y == EvalExpr(expr.y, x.out)
             IN  IF y.panic THEN Panic(y.out)
                 ELSE IF y.err # NilErr
                 THEN Fail(Wrapf("failed to eval binary expr rhs", "", "", 0, y.err), y.out)
                 ELSE LET r == applyOp(expr.op, x.v, y.v)
                      IN  IF r.err # NilErr THEN Fail(r.err, y.out)
                          ELSE Ok(r.v, y.out)

\* A binary expression that evaluates its right operand first.
evalBinaryExprRightFirst(expr, out) ==
    LET y == EvalExpr(expr.y, out)
    IN  IF y.panic THEN Panic(y.out)
        ELSE IF y.err # NilErr
        THEN Fail(Wrapf("failed to eval binary expr rhs", "", "", 0, y.err), y.out)
        ELSE LET x == EvalExpr(expr.x, y.out)
             IN  IF x.panic THEN Panic(x.out)
                 ELSE IF x.err # NilErr
                 THEN Fail(Wrapf("failed to eval binary expr lhs", "", "", 0, x.err), x.out)
                 ELSE LET r == applyOp(expr.op, x.v, y.v)
                      IN  IF r.err # NilErr THEN Fail(r.err, x.out)
                          ELSE Ok(r.v, x.out)

evalBinaryExpr(expr, out) ==
    LET x == EvalExpr(expr.x, out)
    IN  IF x.panic THEN Panic(x.out)
        ELSE IF x.err # NilErr
        THEN Fail(Wrapf("failed to eval binary expr lhs", "", "", 0, x.err), x.out)
        ELSE LET y == EvalExpr(expr.y, x.out)
             IN  IF y.panic THEN Panic(y.out)
                 ELSE IF y.err # NilErr
                 THEN Fail(Wrapf("failed to eval binary expr rhs", "", "", 0, y.err), y.out)
                 ELSE LET r == applyOp(expr.op, x.v, y.v)
                      IN  IF r.err # NilErr THEN Fail(r.err, y.out)
                          ELSE Ok(r.v, y.out)

EvalExpr(expr, out) ==
    CASE expr.t = "*ast.BasicLit" -> evalBasicLit(expr, out)
      [] expr.t = "*ast.Ident" -> evalIdent(expr, out)
      [] expr.t = "*ast.BinaryExpr" -> evalBinaryExpr(expr, out)
      [] expr.t = "*ast.CallExpr" -> evalCallExpr(expr, out)
      [] OTHER -> Fail(Errorf("unsupported expr type", expr.t, "", 0), out)

-----------------------------------------------------------------------------
(* The trees handed to RunFile.                                            *)

Q == "\""
StrLit(s) == BasicLit("STRING", <<Q>> \o s \o <<Q>>)
IntLit(s) == BasicLit("INT", s)
FloatLit(s) == BasicLit("FLOAT", s)
Println(args) == CallExpr(Ident("println"), args)
Qualified(alias, name, args) == CallExpr(SelectorExpr(Ident(alias), name), args)
Add(x, y) == BinaryExpr(x, "ADD", y)
Define(line, name, x) == AssignStmt(line, <<Ident(name)>>, <<x>>)

\* testdata/assign.go: a binding, a block that shadows it, a reassignment.
AssignFile ==
    AstFile("assign", "assign.go", <<>>, <<
        FuncDecl("main", <<
            Define(4, "msg", StrLit(<<"b">>)),
            ExprStmt(5, Println(<<Ident("msg"), StrLit(<<"!">>)>>)),
            BlockStmt(6, <<
                Define(7, "msg", StrLit(<<"s">>)),
                ExprStmt(8, Println(<<Add(Add(StrLit(<<"*">>), Ident("msg")),
                                          StrLit(<<"*">>))>>))
            >>),
            ExprStmt(10, Println(<<Ident("msg"), StrLit(<<"!">>)>>)),
            Define(11, "msg", StrLit(<<"a">>)),
            ExprStmt(12, Println(<<Ident("msg"), StrLit(<<"!">>)>>))
        >>)
    >>)

\* testdata/another-entrypoint.go: two functions, either may be the entry.
EntryFile ==
    AstFile("entry", "another-entrypoint.go", <<>>, <<
        GenDecl,
        FuncDecl("Foo", <<ExprStmt(4, Println(<<StrLit(<<"F">>)>>))>>),
        FuncDecl("Bar", <<ExprStmt(8, Println(<<StrLit(<<"B">>)>>))>>)
    >>)

\* testdata/use-stdlib.go, with an explicit alias and an import of a path
\* the registry does not hold, and calls that miss each resolution step.
StdlibFile ==
    AstFile("stdlib", "use-stdlib.go",
        <<ImportSpec("", <<Q, "fmt", Q>>),
          ImportSpec("str", <<Q>> \o StdlibPrefix \o <<"strings", Q>>),
          ImportSpec("", <<Q, "os", Q>>)>>,
        <<
        FuncDecl("main", <<
            ExprStmt(10, Qualified("fmt", "Println",
                <<Qualified("str", "ToUpper", <<StrLit(<<"h", "i">>)>>)>>))
        >>),
        FuncDecl("NoAlias", <<
            ExprStmt(14, Qualified("strings", "ToUpper", <<StrLit(<<"h", "i">>)>>))
        >>),
        FuncDecl("NoPackage", <<
            ExprStmt(18, Qualified("os", "Getenv", <<StrLit(<<"h">>)>>))
        >>),
        FuncDecl("NoExport", <<
            ExprStmt(22, Qualified("str", "ToLower", <<StrLit(<<"h", "i">>)>>))
        >>)
    >>)

\* Scripts that fail, panic, or leave bindings behind.
MiscFile ==
    AstFile("misc", "misc.go", <<ImportSpec("", <<Q, "strings", Q>>)>>, <<
        FuncDecl("Undef", <<
            BlockStmt(4, <<
                Define(5, "x", StrLit(<<"a">>)),
                BlockStmt(6, <<
                    Define(7, "y", Ident("x")),
                    ExprStmt(8, Println(<<Ident("y"), Ident("z")>>))
                >>),
                ExprStmt(10, Println(<<StrLit(<<"a">>)>>))
            >>)
        >>),
        FuncDecl("Bare", <<
            ExprStmt(12, Ident("nope"))
        >>),
        FuncDecl("BadCall", <<
            BlockStmt(16, <<ExprStmt(17, CallExpr(Ident("true"), <<StrLit(<<"a">>)>>))>>)
        >>),
        FuncDecl("NoFunc", <<
            ExprStmt(21, CallExpr(Ident("nofunc"), <<StrLit(<<"a">>)>>))
        >>),
        FuncDecl("Flip", <<
            ExprStmt(25, Println(<<Ident("true")>>)),
            Define(26, "true", Ident("false"))
        >>),
        FuncDecl("Sum", <<
            Define(30, "x", Add(IntLit(<<"1">>), IntLit(<<"2">>))),
            ExprStmt(31, Println(<<Ident("x")>>)),
            ExprStmt(32, Println(<<Add(Ident("x"), IntLit(<<"3">>))>>))
        >>),
        FuncDecl("Mixed", <<
            ExprStmt(36, Println(<<Add(FloatLit(<<"1", ".", "5">>),
                                       FloatLit(<<"2", ".", "5">>))>>)),
            ExprStmt(37, Println(<<Add(IntLit(<<"1">>), StrLit(<<"a">>))>>))
        >>),
        FuncDecl("Use", <<
            ExprStmt(41, Println(<<Ident("x")>>))
        >>),
        FuncDecl("Shapes", <<
            BlockStmt(45, <<
                AssignStmt(46, <<Ident("a"), Ident("b")>>,
                               <<IntLit(<<"1">>), IntLit(<<"2">>)>>)
            >>)
        >>),
        FuncDecl("Rhs", <<
            AssignStmt(50, <<Ident("a")>>, <<IntLit(<<"1">>), IntLit(<<"2">>)>>)
        >>),
        FuncDecl("Sel", <<
            AssignStmt(54, <<SelectorExpr(Ident("a"), "b")>>, <<IntLit(<<"1">>)>>)
        >>),
        FuncDecl("Ret", <<
            ExprStmt(58, Println(<<>>)),
            ReturnStmt(59)
        >>),
        FuncDecl("BadAssign", <<
            Define(63, "v", StrLit(<<"a">>)),
            Define(64, "v", Add(Ident("v"), Ident("nope")))
        >>),
        FuncDecl("PanicAssign", <<
            Define(68, "v", Qualified("strings", "ToUpper", <<>>))
        >>),
        FuncDecl("Order", <<
            ExprStmt(72, Add(Println(<<StrLit(<<"a">>)>>), Println(<<StrLit(<<"b">>)>>))),
            ExprStmt(73, Println(<<Println(<<StrLit(<<"a">>)>>), Ident("nope"),
                                   Println(<<StrLit(<<"b">>)>>)>>)),
            ExprStmt(74, Println(<<StrLit(<<"b">>)>>))
        >>),
        FuncDecl("Logic", <<
            ExprStmt(78, Println(<<BinaryExpr(Ident("true"), "LOR", Ident("false")),
                                   BinaryExpr(Ident("true"), "LAND", Ident("false"))>>)),
            ExprStmt(79, BinaryExpr(Ident("true"), "LOR", Println(<<StrLit(<<"b">>)>>)))
        >>)
    >>)

\* another-entrypoint.go parsed again after an edit: the same file name, now
\* with imports, two of which give the same alias.
EditedFile ==
    AstFile("edited", "another-entrypoint.go",
        <<ImportSpec("", <<Q, "os", Q>>),
          ImportSpec("up", <<Q, "strings", Q>>),
          ImportSpec("os", <<Q>> \o StdlibPrefix \o <<"fmt", Q>>)>>,
        <<
        FuncDecl("Baz", <<
            ExprStmt(9, Qualified("os", "Println",
                <<Qualified("up", "ToUpper", <<StrLit(<<"a">>)>>)>>))
        >>)
    >>)

Trees == {AssignFile, EntryFile, StdlibFile, MiscFile, EditedFile}

\* The entry points asked of a tree: its functions, and "main".
Entrypoints(node) ==
    {node.decls[i].name : i \in {j \in 1..Len(node.decls) :
                                    node.decls[j].t = "*ast.FuncDecl"}}
    \cup {"main"}

-----------------------------------------------------------------------------
(* Interpreter.RunFile                                                     *)

RECURSIVE TrimLeft(_, _)
TrimLeft(s, c) == IF s # <<>> /\ s[1] = c THEN TrimLeft(Tail(s), c) ELSE s
RECURSIVE TrimRight(_, _)
TrimRight(s, c) ==
    IF s # <<>> /\ s[Len(s)] = c THEN TrimRight(SubSeq(s, 1, Len(s) - 1), c) ELSE s
\* strings.Trim(s, c) for a cutset of one character
Trim(s, c) == TrimRight(TrimLeft(s, c), c)

\* parts[len(parts)-1] of strings.Split(path, "/"): a path is held as its
\* segments with the "/" between them, so the last part is the last
\* segment, or empty when the path is empty or ends in "/".
LastPart(path) ==
    IF path = <<>> \/ path[Len(path)] = "/" THEN "" ELSE path[Len(path)]

\* A loop over the imports that keeps the path an alias already has.
RECURSIVE buildImportsFirstWins(_, _, _)
buildImportsFirstWins(imports, i, table) ==
    IF i > Len(imports) THEN table
    ELSE LET im == imports[i]
             path == Trim(im.path, Q)
             name == IF im.name = "" THEN LastPart(path) ELSE im.name
         IN  buildImportsFirstWins(imports, i + 1, table @@ (name :> path))

\* The loop over node.Imports, from import i on, filling file.Imports.
RECURSIVE buildImports(_, _, _)
buildImports(imports, i, table) ==
    IF i > Len(imports) THEN table
    ELSE LET im == imports[i]
             path == Trim(im.path, Q)
             name == IF im.name = "" THEN LastPart(path) ELSE im.name
         IN  buildImports(imports, i + 1, (name :> path) @@ table)

\* A registration whose first run starts the registry over with the main
\* package alone.
registerFileFresh(pkgs, node) ==
    LET withMain == IF MainPath \in DOMAIN pkgs THEN pkgs
                    ELSE (MainPath :> Package("main", MainPath, <<>>, <<>>))
        files == withMain[MainPath].Files
    IN  IF node.filename \in DOMAIN files THEN withMain
        ELSE [withMain EXCEPT ![MainPath].Files =
                 (node.filename :> File(node.filename, node.id,
                                        buildImports(node.imports, 1, <<>>))) @@ @]

\* A registration that builds the descriptor anew on every run.
registerFileAlways(pkgs, node) ==
    LET withMain == IF MainPath \in DOMAIN pkgs THEN pkgs
                    ELSE (MainPath :> Package("main", MainPath, <<>>, <<>>)) @@ pkgs
    IN  [withMain EXCEPT ![MainPath].Files =
            (node.filename :> File(node.filename, node.id,
                                   buildImports(node.imports, 1, <<>>))) @@ @]

\* The registry after RunFile has made sure of the main package and of the
\* file's descriptor.
registerFile(pkgs, node) ==
    LET withMain == IF MainPath \in DOMAIN pkgs THEN pkgs
                    ELSE (MainPath :> Package("main", MainPath, <<>>, <<>>)) @@ pkgs
        files == withMain[MainPath].Files
    IN  IF node.filename \in DOMAIN files THEN withMain
        ELSE [withMain EXCEPT ![MainPath].Files =
                 (node.filename :> File(node.filename, node.id,
                                        buildImports(node.imports, 1, <<>>))) @@ @]

\* The index of the first function declaration, whatever its name.
findFirstFunc(decls, entrypoint) ==
    LET hits == {i \in 1..Len(decls) : decls[i].t = "*ast.FuncDecl"}
    IN  IF hits = {} THEN 0 ELSE CHOOSE i \in hits : \A j \in hits : i <= j

\* The index of the first function declaration named entrypoint, 0 if none.
findFunc(decls, entrypoint) ==
    LET hits == {i \in 1..Len(decls) :
                    decls[i].t = "*ast.FuncDecl" /\ decls[i].name = entrypoint}
    IN  IF hits = {} THEN 0 ELSE CHOOSE i \in hits : \A j \in hits : i <= j

NoCall == [node |-> "", entrypoint |-> "", start |-> 0]

\* What RunFile's caller sees: the error returned, or a panic, and the
\* lines the call wrote.
Returned(c, e, panicked, out) ==
    [node |-> c.node, entrypoint |-> c.entrypoint, err |-> e,
     panic |-> panicked, out |-> SubSeq(out, c.start + 1, Len(out))]

Init ==
    /\ frames = <<RootFrame>>
    /\ packages = InitPackages
    /\ history = <<>>
    /\ stdout = <<>>
    /\ pc = "idle"
    /\ control = <<>>
    /\ err = NilErr
    /\ cur = NoCall
    /\ log = <<>>

\* RunFile up to the call of runFunc.
RunFileFound(node, entrypoint) ==
    /\ pc = "idle"
    /\ Len(log) < MaxRuns
    /\ findFunc(node.decls, entrypoint) # 0
    /\ packages' = registerFile(packages, node)
    /\ history' = Append(history, packages'[MainPath].Files[node.filename])
    /\ control' = <<[list |-> node.decls[findFunc(node.decls, entrypoint)].body,
                     i |-> 1, outer |-> <<>>]>>
    /\ cur' = [node |-> node.id, entrypoint |-> entrypoint, start |-> Len(stdout)]
    /\ pc' = "run"
    /\ UNCHANGED <<frames, stdout, err, log>>

\* RunFile when no declaration matches: the error, and the deferred pop of
\* the history.
RunFileNotFound(node, entrypoint) ==
    /\ pc = "idle"
    /\ Len(log) < MaxRuns
    /\ findFunc(node.decls, entrypoint) = 0
    /\ packages' = registerFile(packages, node)
    /\ LET pushed == Append(history, packages'[MainPath].Files[node.filename])
       IN  history' = SubSeq(pushed, 1, Len(pushed) - 1)
    /\ log' = Append(log, Returned([node |-> node.id, entrypoint |-> entrypoint,
                                    start |-> Len(stdout)],
                                   Errorf("entrypoint func is not found", entrypoint, "", 0),
                                   FALSE, stdout))
    /\ UNCHANGED <<frames, stdout, pc, control, err, cur>>

-----------------------------------------------------------------------------
(* runFunc and evaluator.EvalStmt                                          *)

\* The loop that is executing: runFunc's over the body (the bottom entry)
\* or a block's over its list.  i is the index of the statement it is at;
\* outer is the frame stack as the block found it.
Top == control[Len(control)]
AtStmt == pc = "run" /\ control # <<>> /\ Top.i <= Len(Top.list)
AtEnd == pc = "run" /\ control # <<>> /\ Top.i > Len(Top.list)
Stmt == Top.list[Top.i]

Advance(c) == [c EXCEPT ![Len(c)].i = @ + 1]
Return(c) == SubSeq(c, 1, Len(c) - 1)

\* The statement returned r: go on, start returning the error, or unwind
\* the panic.
Outcome(r, wrap) ==
    /\ stdout' = r.out
    /\ IF r.panic
       THEN pc' = "panic" /\ err' = NilErr /\ control' = control
       ELSE IF r.err # NilErr
       THEN pc' = "fail" /\ err' = Wrapf(wrap, "", "", 0, r.err) /\ control' = control
       ELSE pc' = "run" /\ err' = NilErr /\ control' = Advance(control)

EvalExprStmt ==
    /\ AtStmt
    /\ Stmt.t = "*ast.ExprStmt"
    /\ Outcome(EvalExpr(Stmt.x, stdout), "failed to eval expr")
    /\ UNCHANGED <<frames, packages, history, cur, log>>

\* A block statement: Push, and the loop over its list begins.
EnterBlock ==
    /\ AtStmt
    /\ Stmt.t = "*ast.BlockStmt"
    /\ frames' = Push(frames)
    /\ control' = Append(control, [list |-> Stmt.list, i |-> 1, outer |-> frames])
    /\ UNCHANGED <<packages, history, stdout, pc, err, cur, log>>

\* The block's loop is over: return nil, and the deferred Pop.
LeaveBlock ==
    /\ AtEnd
    /\ Len(control) > 1
    /\ frames' = Pop(frames)
    /\ control' = Advance(Return(control))
    /\ UNCHANGED <<packages, history, stdout, pc, err, cur, log>>

\* A failing block that returns without the Pop.
FailBlockNoPop ==
    /\ pc = "fail"
    /\ Len(control) > 1
    /\ err' = Wrapf("in block", "", "", Top.i - 1, err)
    /\ control' = Return(control)
    /\ UNCHANGED <<frames, packages, history, stdout, pc, cur, log>>

\* A failing block that counts its statements from one.
FailBlockOneBased ==
    /\ pc = "fail"
    /\ Len(control) > 1
    /\ err' = Wrapf("in block", "", "", Top.i, err)
    /\ frames' = Pop(frames)
    /\ control' = Return(control)
    /\ UNCHANGED <<packages, history, stdout, pc, cur, log>>

\* A statement of the block failed: the error is wrapped with the index of
\* the statement, and the deferred Pop runs.
FailBlock ==
    /\ pc = "fail"
    /\ Len(control) > 1
    /\ err' = Wrapf("in block", "", "", Top.i - 1, err)
    /\ frames' = Pop(frames)
    /\ control' = Return(control)
    /\ UNCHANGED <<packages, history, stdout, pc, cur, log>>

\* A panic passes through the block: only the deferred Pop runs.
PanicBlock ==
    /\ pc = "panic"
    /\ Len(control) > 1
    /\ frames' = Pop(frames)
    /\ control' = Return(control)
    /\ UNCHANGED <<packages, history, stdout, pc, err, cur, log>>

\* The assignment once its shape is accepted: the right-hand side, then Set.
assignIdent(lhs, rhs) ==
    LET r == EvalExpr(rhs, stdout)
    IN  /\ Outcome(r, "failed to eval assign")
        /\ frames' = IF ~r.panic /\ r.err = NilErr
                     THEN Set(frames, lhs.name, r.v) ELSE frames

EvalAssignStmt ==
    /\ AtStmt
    /\ Stmt.t = "*ast.AssignStmt"
    /\ IF Len(Stmt.lhs) > 1
       THEN /\ pc' = "fail"
            /\ err' = Errorf("unsupported assign lhs", "", "", Len(Stmt.lhs))
            /\ UNCHANGED <<frames, stdout, control>>
       ELSE IF Len(Stmt.rhs) > 1
       THEN /\ pc' = "fail"
            /\ err' = Errorf("unsupported assign rhs", "", "", Len(Stmt.rhs))
            /\ UNCHANGED <<frames, stdout, control>>
       ELSE IF Stmt.lhs[1].t = "*ast.Ident"
       THEN assignIdent(Stmt.lhs[1], Stmt.rhs[1])
       ELSE /\ pc' = "fail"
            /\ err' = Errorf("unsupported assign lhs type", Stmt.lhs[1].t, "", 0)
            /\ UNCHANGED <<frames, stdout, control>>
    /\ UNCHANGED <<packages, history, cur, log>>

EvalOtherStmt ==
    /\ AtStmt
    /\ Stmt.t \notin {"*ast.ExprStmt", "*ast.BlockStmt", "*ast.AssignStmt"}
    /\ pc' = "fail"
    /\ err' = Errorf("unsupported stmt type", Stmt.t, "", 0)
    /\ UNCHANGED <<frames, packages, history, stdout, control, cur, log>>

\* A return that also pops a frame, as if the body had pushed one.
ReturnToCallerPopping(e, panicked) ==
    /\ history' = SubSeq(history, 1, Len(history) - 1)
    /\ log' = Append(log, Returned(cur, e, panicked, stdout))
    /\ control' = <<>>
    /\ err' = NilErr
    /\ cur' = NoCall
    /\ pc' = IF panicked THEN "aborted" ELSE "idle"
    /\ frames' = Pop(frames)
    /\ UNCHANGED <<packages, stdout>>

\* A return whose pop of the history is skipped when an error is returned.
ReturnToCallerKeeping(e, panicked) ==
    /\ history' = IF e # NilErr THEN history ELSE SubSeq(history, 1, Len(history) - 1)
    /\ log' = Append(log, Returned(cur, e, panicked, stdout))
    /\ control' = <<>>
    /\ err' = NilErr
    /\ cur' = NoCall
    /\ pc' = IF panicked THEN "aborted" ELSE "idle"
    /\ UNCHANGED <<frames, packages, stdout>>

\* RunFile returns to its caller: the deferred pop of the history.
ReturnToCaller(e, panicked) ==
    /\ history' = SubSeq(history, 1, Len(history) - 1)
    /\ log' = Append(log, Returned(cur, e, panicked, stdout))
    /\ control' = <<>>
    /\ err' = NilErr
    /\ cur' = NoCall
    /\ pc' = IF panicked THEN "aborted" ELSE "idle"
    /\ UNCHANGED <<frames, packages, stdout>>

\* runFunc's loop is over: it returns nil, and so does RunFile.
ReturnOk ==
    /\ AtEnd
    /\ Len(control) = 1
    /\ ReturnToCaller(NilErr, FALSE)

\* runFunc wraps the error with the line of the statement, RunFile returns it.
ReturnErr ==
    /\ pc = "fail"
    /\ Len(control) = 1
    /\ ReturnToCaller(Wrapf("line: failed to eval stmt", "", "", Stmt.line, err), FALSE)

\* The panic leaves RunFile; nothing recovers it.
ReturnPanic ==
    /\ pc = "panic"
    /\ Len(control) = 1
    /\ ReturnToCaller(NilErr, TRUE)

Next ==
    \/ \E node \in Trees : \E entrypoint \in Entrypoints(node) :
          RunFileFound(node, entrypoint)
    \/ \E node \in Trees : \E entrypoint \in Entrypoints(node) :
          RunFileNotFound(node, entrypoint)
    \/ EvalExprStmt
    \/ EvalAssignStmt
    \/ EvalOtherStmt
    \/ EnterBlock
    \/ LeaveBlock
    \/ FailBlock
    \/ PanicBlock
    \/ ReturnOk
    \/ ReturnErr
    \/ ReturnPanic

Spec == Init /\ [][Next]_vars

-----------------------------------------------------------------------------
(* Properties                                                              *)

\* The identifiers the scripts use.
Names == {"true", "false", "println", "msg", "x", "y", "z", "nope", "nofunc",
          "a", "b", "v"}

Last(s) == s[Len(s)]
Lookup(fs, name) == Get(fs, name)

\* A loop of a block returned in this step (its statements done, or one of
\* them failed or panicked).
BlockReturns == Len(control) > 1 /\ Len(control') = Len(control) - 1

\* C1: shadowing.  A binding made in a block is what lookups in the block
\* return from then on; the frames that existed when a block was entered
\* stay as they were for as long as the block runs; and when the block
\* returns, normally or by failure, the frame stack, hence every lookup, is
\* what it was when the block was entered.
C1_Shadowing ==
    [][ /\ \A k \in 1..Len(control') :
              /\ Len(control'[k].outer) <= Len(frames')
              /\ SubSeq(frames', 1, Len(control'[k].outer)) = control'[k].outer
        /\ BlockReturns =>
              /\ frames' = Top.outer
              /\ \A n \in Names : Lookup(frames', n) = Lookup(Top.outer, n)
        /\ (AtStmt /\ Stmt.t = "*ast.AssignStmt" /\ pc' = "run") =>
              /\ Lookup(frames', Stmt.lhs[1].name).ok
              /\ Lookup(frames', Stmt.lhs[1].name).val = EvalExpr(Stmt.rhs[1], stdout).v
      ]_vars

\* The shadowing script has left its block: inside, msg was "s" (the line
\* the block printed); outside, it is "b" again.
C1_Witness ==
    /\ pc = "run"
    /\ cur.node = "assign"
    /\ Len(control) = 1
    /\ Top.i = 4
    /\ Last(stdout) = <<"*", "s", "*">>
    /\ Lookup(frames, "msg").val = StringV(<<"b">>)

\* C2: push/pop discipline.  A statement that is no block leaves the number
\* of frames alone; a block that returns, normally, by failure or by panic,
\* leaves as many frames as it found; so the stack always holds the root
\* frame and one frame for each block that has not returned.
C2_PushPop ==
    [][ /\ (AtStmt /\ Stmt.t # "*ast.BlockStmt") => Len(frames') = Len(frames)
        /\ BlockReturns => Len(frames') = Len(Top.outer)
        /\ Len(frames') = IF control' = <<>> THEN 1 ELSE Len(control')
      ]_vars

\* A statement failed two blocks deep, and RunFile has returned the error.
C2_Witness ==
    /\ pc = "idle"
    /\ log # <<>>
    /\ Len(Last(log).err) >= 3
    /\ Last(log).err[2].m = "in block"
    /\ Last(log).err[3].m = "in block"
    /\ Len(frames) = 1

\* C3: the scope stack is never empty and its bottom frame is the frame
\* that New created, the only one of its kind on the stack.
C3_RootFrame ==
    /\ Len(frames) >= 1
    /\ frames[1].root
    /\ \A i \in 2..Len(frames) : ~frames[i].root

\* Two calls of RunFile have returned, one of them with an error from
\* inside a block.
C3_Witness ==
    /\ Len(log) = 2
    /\ \E i \in 1..2 : \E k \in 1..Len(log[i].err) : log[i].err[k].m = "in block"
    /\ frames[1].root

\* The frame stack answers lookups by the topmost binder: the binding of the
\* topmost frame that holds the name, not found when none holds it.
Innermost(fs) ==
    \A n \in Names :
        LET binders == {i \in 1..Len(fs) : n \in DOMAIN fs[i].vars}
            top == CHOOSE i \in binders : \A j \in binders : j <= i
        IN  IF binders = {}
            THEN Get(fs, n) = [val |-> zero, ok |-> FALSE]
            ELSE Get(fs, n) = [val |-> fs[top].vars[n], ok |-> TRUE]

\* C4: Get returns the innermost binding of a name, not found exactly when
\* no frame binds it, and a statement that only looks a name up changes no
\* frame.
C4_Get ==
    [][ /\ Innermost(frames')
        /\ (AtStmt /\ Stmt.t = "*ast.ExprStmt" /\ Stmt.x.t = "*ast.Ident")
              => frames' = frames
      ]_vars

\* A name is bound in two frames, to different values.
C4_Witness ==
    \E n \in Names : \E i, j \in 1..Len(frames) :
        /\ i < j
        /\ n \in DOMAIN frames[i].vars
        /\ n \in DOMAIN frames[j].vars
        /\ frames[i].vars[n] # frames[j].vars[n]

UndefinedVariable(n) == Errorf("undefined variable", n, "", 0)

\* C5: an identifier bound in no frame evaluates to the error "undefined
\* variable" naming it, with no panic and nothing written, as an expression
\* of its own and as an argument of a call; and the statement that evaluates
\* it fails with that error and leaves the frames as they were.
C5_Undefined ==
    /\ [](\A n \in Names : ~Get(frames, n).ok =>
            /\ EvalExpr(Ident(n), stdout) = Fail(UndefinedVariable(n), stdout)
            /\ EvalExpr(Println(<<StrLit(<<"a">>), Ident(n)>>), stdout)
                 = Fail(Wrapf("failed to eval argument", "", "", 1,
                              UndefinedVariable(n)), stdout))
    /\ [][ (/\ AtStmt
            /\ Stmt.t = "*ast.ExprStmt"
            /\ Stmt.x.t = "*ast.Ident"
            /\ ~Get(frames, Stmt.x.name).ok)
           => /\ pc' = "fail"
              /\ err' = Wrapf("failed to eval expr", "", "", 0,
                              UndefinedVariable(Stmt.x.name))
              /\ frames' = frames
              /\ stdout' = stdout
         ]_vars

\* The statement that was an unbound identifier has failed.
C5_Witness ==
    /\ pc = "fail"
    /\ Stmt.t = "*ast.ExprStmt"
    /\ Stmt.x.t = "*ast.Ident"
    /\ Last(err) = UndefinedVariable("nope")[1]

\* The statement at hand is a call of a bare identifier.
AtBareCall ==
    /\ AtStmt
    /\ Stmt.t = "*ast.ExprStmt"
    /\ Stmt.x.t = "*ast.CallExpr"
    /\ Stmt.x.fun.t = "*ast.Ident"

\* C6: a call of a bare identifier whose arguments evaluate succeeds only
\* if the identifier is bound to a func, and when the identifier is unbound
\* or bound to a value that is no func the call returns the error
\* "unsupported function" naming it, without a panic.
C6_BareCall ==
    AtBareCall =>
        LET a == evalArgs(Stmt.x.args, 1, <<>>, stdout)
            g == Get(frames, Stmt.x.fun.name)
            r == EvalExpr(Stmt.x, stdout)
        IN  (~a.panic /\ a.err = NilErr) =>
               /\ (~r.panic /\ r.err = NilErr) => (g.ok /\ g.val.kind = "func")
               /\ (~g.ok \/ g.val.kind # "func") =>
                     /\ ~r.panic
                     /\ r.err = Errorf("unsupported function", Stmt.x.fun.name, "", 0)

Aliases == {"fmt", "str", "strings", "os", "nope"}
Exports == {"Println", "ToUpper", "ToLower", "Getenv"}

LogOf(node, entrypoint) ==
    {k \in 1..Len(log) : log[k].node = node /\ log[k].entrypoint = entrypoint}

\* C7: a qualified call alias.Name goes through the import table of the
\* file on top of the history, the registry, and the package's exports.
\* When the three steps succeed the export is invoked with the arguments
\* (ToUpper("hi") is "HI"); when one of them fails the call returns an error
\* naming the alias, no value, and writes nothing.
C7_Qualified ==
    /\ history # <<>> =>
          \A alias \in Aliases : \A name \in Exports :
             LET imports == history[Len(history)].Imports
                 path == imports[alias]
                 resolves == /\ alias \in DOMAIN imports
                             /\ path \in DOMAIN packages
                             /\ name \in DOMAIN packages[path].Decls
                 r == EvalExpr(Qualified(alias, name, <<StrLit(<<"h", "i">>)>>), stdout)
             IN  IF resolves
                 THEN /\ r = Invoke(packages[path].Decls[name],
                                    <<StringV(<<"h", "i">>)>>, stdout)
                      /\ name = "ToUpper" => r = Ok(StringV(<<"H", "I">>), stdout)
                 ELSE /\ ~r.panic
                      /\ r.err # NilErr
                      /\ Last(r.err).s = alias
                      /\ r.v = zero
                      /\ r.out = stdout
    /\ \A k \in LogOf("stdlib", "main") :
          log[k].err = NilErr /\ ~log[k].panic /\ log[k].out = <<<<"H", "I">>>>
    /\ \A k \in LogOf("stdlib", "NoAlias") :
          log[k].out = <<>> /\ Last(log[k].err).s = "strings"
    /\ \A k \in LogOf("stdlib", "NoPackage") :
          log[k].out = <<>> /\ Last(log[k].err).s = "os"
    /\ \A k \in LogOf("stdlib", "NoExport") :
          log[k].out = <<>> /\ Last(log[k].err).s = "str"

\* The case-conversion script has printed HI, and the call through an alias
\* that the file does not import has failed.
C7_Witness ==
    /\ Len(log) = 2
    /\ 1 \in LogOf("stdlib", "main")
    /\ log[1].out = <<<<"H", "I">>>>
    /\ 2 \in LogOf("stdlib", "NoAlias")
    /\ log[2].err # NilErr

\* The values an addition may meet: those the frames hold and one or two of
\* every kind.
Operands ==
    {frames[i].vars[n] : <<i, n>> \in
        {p \in (1..Len(frames)) \X Names : p[2] \in DOMAIN frames[p[1]].vars}}
    \cup {IntV(1), IntV(2), Int64V(3), Float64V(3), Float64V(5), StringV(<<"a">>),
          StringV(<<"b">>), StringV(<<>>), BoolV(TRUE), FuncV("println"), zero}

TreeOf(id) == CHOOSE t \in Trees : t.id = id
Declares(node, name) ==
    {i \in 1..Len(node.decls) :
        node.decls[i].t = "*ast.FuncDecl" /\ node.decls[i].name = name}

NotFound(name) == Errorf("entrypoint func is not found", name, "", 0)

\* C9: the statements RunFile evaluates are the body of the function
\* declaration of the tree that has the entry point's name; when the tree
\* declares no such function, RunFile returns "entry point not found"
\* naming it and writes nothing.
C9_EntryPoint ==
    /\ control # <<>> =>
          \E i \in Declares(TreeOf(cur.node), cur.entrypoint) :
              control[1].list = TreeOf(cur.node).decls[i].body
    /\ \A k \in 1..Len(log) :
          IF Declares(TreeOf(log[k].node), log[k].entrypoint) = {}
          THEN log[k].err = NotFound(log[k].entrypoint) /\ log[k].out = <<>>
          ELSE log[k].err # NotFound(log[k].entrypoint)
    /\ \A k \in LogOf("entry", "Foo") : log[k].err = NilErr /\ log[k].out = <<<<"F">>>>
    /\ \A k \in LogOf("entry", "Bar") : log[k].err = NilErr /\ log[k].out = <<<<"B">>>>

\* Bar was run and printed B, and main, which the tree lacks, was asked for.
C9_Witness ==
    /\ Len(log) = 2
    /\ 1 \in LogOf("entry", "Bar")
    /\ log[1].out = <<<<"B">>>>
    /\ 2 \in LogOf("entry", "main")
    /\ log[2].err = NotFound("main")

\* C10: two runs of the same tree and entry point write the same lines, and
\* between two calls of RunFile the scope is as New made it and the history
\* is empty: only the registry carries over.
C10_Idempotent ==
    /\ \A j, k \in 1..Len(log) :
          (log[j].node = log[k].node /\ log[j].entrypoint = log[k].entrypoint)
             => log[j].out = log[k].out
    /\ pc = "idle" => (frames = <<RootFrame>> /\ history = <<>>)

\* C11: the call history.  While a run is evaluating statements, or
\* returning from them, the history holds the descriptor of the file that is
\* running, which is the one the main package keeps under that file name;
\* between runs, whatever way the last one ended (done, a statement failed,
\* no such entry point, a panic), the history is as it was before: empty.
Running == pc \in {"run", "fail", "panic"}

C11_History ==
    /\ Running <=> control # <<>>
    /\ Running =>
          /\ Len(history) = 1
          /\ Last(history).Name = TreeOf(cur.node).filename
          /\ Last(history) = packages[MainPath].Files[Last(history).Name]
    /\ ~Running => history = <<>>

C11_Witness ==
    /\ Len(log) = 1
    /\ log[1].err # NilErr
    /\ log[1].err # NotFound(log[1].entrypoint)
    /\ pc = "fail"
    /\ Len(control) > 1
    /\ Len(history) = 1

\* The trees handed to RunFile so far, in order, the running one last.
Runs ==
    [k \in 1..Len(log) |-> log[k].node] \o (IF Running THEN <<cur.node>> ELSE <<>>)

FirstRun(filename) ==
    LET ks == {k \in 1..Len(Runs) : TreeOf(Runs[k]).filename = filename}
    IN  Runs[CHOOSE k \in ks : \A j \in ks : k <= j]

\* A step leaves the main package, and every descriptor it holds, in place.
DescriptorsKept ==
    MainPath \in DOMAIN packages =>
        /\ MainPath \in DOMAIN packages'
        /\ \A f \in DOMAIN packages[MainPath].Files :
              /\ f \in DOMAIN packages'[MainPath].Files
              /\ packages'[MainPath].Files[f] = packages[MainPath].Files[f]

\* C12: registration of files.  Once a run has begun the registry holds the
\* main package, and no later run replaces it; the package holds one
\* descriptor for each file name that was run and no other; a descriptor is
\* the one built from the first tree run under its name, a later run of the
\* name (of the same or of another tree) runs with that descriptor, and no
\* step changes a descriptor or its alias table.
C12_Registration ==
    /\ [](Runs # <<>> =>
            /\ MainPath \in DOMAIN packages
            /\ packages[MainPath].Name = "main"
            /\ packages[MainPath].Path = MainPath
            /\ DOMAIN packages[MainPath].Files =
                  {TreeOf(Runs[k]).filename : k \in 1..Len(Runs)}
            /\ \A f \in DOMAIN packages[MainPath].Files :
                  LET d == packages[MainPath].Files[f]
                  IN  /\ d.Name = f
                      /\ d.Node = FirstRun(f)
                      /\ d.Imports = buildImports(TreeOf(d.Node).imports, 1, <<>>)
            /\ Running => Last(history).Node = FirstRun(TreeOf(cur.node).filename))
    /\ [][DescriptorsKept]_vars

C12_Witness ==
    /\ Len(log) = 1
    /\ log[1].node = "edited"
    /\ Running
    /\ cur.node = "entry"
    /\ Last(history).Node = "edited"
    /\ Last(history).Imports # buildImports(TreeOf(cur.node).imports, 1, <<>>)

\* What a step does to the loops: the statement a loop is at either is done
\* and the loop is at the next one, or is a block whose loop starts at its
\* first statement, or fails and the loop stays; a block that is done moves
\* its parent on by one.  Once a statement has failed no loop moves again:
\* no output, no binding, only the frames of the blocks left are dropped,
\* each block adds the index (from zero) of its failing statement, and the
\* error returned is under the line of the statement the body's loop is at.
InOrder ==
    /\ AtStmt =>
          \/ pc' = "run" /\ control' = Advance(control)
          \/ /\ pc' = "run"
             /\ Stmt.t = "*ast.BlockStmt"
             /\ Len(control') = Len(control) + 1
             /\ SubSeq(control', 1, Len(control)) = control
             /\ Last(control').list = Stmt.list
             /\ Last(control').i = 1
          \/ pc' \in {"fail", "panic"} /\ control' = control
    /\ AtEnd /\ Len(control) > 1 =>
          pc' = "run" /\ control' = Advance(Return(control))
    /\ pc = "fail" =>
          /\ stdout' = stdout
          /\ frames' \in {frames, Pop(frames)}
          /\ IF Len(control) > 1
             THEN /\ pc' = "fail"
                  /\ control' = Return(control)
                  /\ err' = Wrapf("in block", "", "", Top.i - 1, err)
             ELSE /\ pc' = "idle"
                  /\ frames' = frames
                  /\ Len(log') = Len(log) + 1
                  /\ Last(log').err =
                        Wrapf("line: failed to eval stmt", "", "",
                              control[1].list[control[1].i].line, err)

\* The first k layers of an error: message and number of each.
Layers(e, k) == [j \in 1..k |-> <<e[j].m, e[j].n>>]

\* C13: statements run in source order and the first failure ends the run,
\* in the body and in a block.  Every step moves the loops as InOrder says;
\* and the scripts return what that gives: Undef fails in the second
\* statement of a block that is the second statement of the block on line
\* 4, before anything is printed; Order and Sum print what the statements
\* before the failing line print and nothing of those after it.
C13_SourceOrder ==
    /\ [][InOrder]_vars
    /\ [](\A k \in LogOf("misc", "Undef") :
             /\ log[k].out = <<>>
             /\ Len(log[k].err) > 3
             /\ Layers(log[k].err, 3) = << <<"line: failed to eval stmt", 4>>,
                                      <<"in block", 1>>, <<"in block", 1>> >>)
    /\ [](\A k \in LogOf("misc", "Order") :
             /\ log[k].out = << <<"a">>, <<"b">>, <<"a">> >>
             /\ Layers(log[k].err, 1) = << <<"line: failed to eval stmt", 73>> >>)
    /\ [](\A k \in LogOf("misc", "Sum") :
             /\ log[k].out = << <<"3">> >>
             /\ Layers(log[k].err, 1) = << <<"line: failed to eval stmt", 32>> >>)

C13_Witness ==
    /\ LogOf("misc", "Undef") # {}
    /\ pc = "fail"
    /\ Len(control) = 1
    /\ cur.entrypoint = "Order"
    /\ Stmt.line = 73

\* What an assignment statement does in a step.  With one identifier on
\* the left and one expression on the right whose value is had, the frames
\* after differ from those before in the binding of that name in the top
\* frame, which is the value, and in nothing else; any other assignment
\* starts the return of an error and leaves the frames as they were.
AssignStep ==
    AtStmt /\ Stmt.t = "*ast.AssignStmt" =>
        LET shaped == /\ Len(Stmt.lhs) = 1
                      /\ Len(Stmt.rhs) = 1
                      /\ Stmt.lhs[1].t = "*ast.Ident"
            r == EvalExpr(Stmt.rhs[1], stdout)
            name == Stmt.lhs[1].name
        IN  IF shaped /\ ~r.panic /\ r.err = NilErr
            THEN /\ pc' = "run"
                 /\ Len(frames') = Len(frames)
                 /\ \A i \in 1..(Len(frames) - 1) : frames'[i] = frames[i]
                 /\ Last(frames').root = Last(frames).root
                 /\ DOMAIN Last(frames').vars = DOMAIN Last(frames).vars \cup {name}
                 /\ Last(frames').vars[name] = r.v
                 /\ \A n \in DOMAIN Last(frames).vars \ {name} :
                       Last(frames').vars[n] = Last(frames).vars[n]
            ELSE /\ pc' = "fail"
                 /\ err' # NilErr
                 /\ frames' = frames

\* C14: an assignment is atomic for the scope.  Every step of an assignment
\* statement either binds exactly the one name in the top frame, or returns
\* an error (it does not abort the run) and changes no frame.
C14_Atomic == [][AssignStep]_vars

\* Expressions whose evaluation shows: one prints a, one prints b, one
\* fails (no script binds nope).
PrintsA == Println(<<StrLit(<<"a">>)>>)
PrintsB == Println(<<StrLit(<<"b">>)>>)
Fails == Ident("nope")

\* The lines an evaluation wrote.
Wrote(r) == SubSeq(r.out, Len(stdout) + 1, Len(r.out))

\* C15: the order of evaluation in an expression, seen in what is printed
\* and in which error comes back.  Of two operands the left is evaluated
\* first, and the right only when the left gave a value.  The arguments of
\* a call are evaluated left to right before the callee is looked up: a
\* call of an unbound name still prints what its arguments print; when an
\* argument fails the later ones print nothing, the callee prints nothing,
\* and the error has the index (from zero) of the failing argument.
C15_Order ==
    /\ LET r == EvalExpr(Add(PrintsA, PrintsB), stdout)
       IN  r.err = NilErr /\ Wrote(r) = << <<"a">>, <<"b">> >>
    /\ LET r == EvalExpr(Add(Fails, PrintsB), stdout)
       IN  r.err[1].m = "failed to eval binary expr lhs" /\ Wrote(r) = <<>>
    /\ LET r == EvalExpr(Add(PrintsA, Fails), stdout)
       IN  r.err[1].m = "failed to eval binary expr rhs" /\ Wrote(r) = << <<"a">> >>
    /\ LET r == EvalExpr(CallExpr(Ident("nofunc"), <<PrintsA, PrintsB>>), stdout)
       IN  r.err[1].m = "unsupported function" /\ Wrote(r) = << <<"a">>, <<"b">> >>
    /\ LET r == EvalExpr(CallExpr(Ident("nofunc"), <<Fails, PrintsA>>), stdout)
       IN  /\ r.err[1].m = "failed to eval argument"
           /\ r.err[1].n = 0
           /\ Wrote(r) = <<>>
    /\ LET r == EvalExpr(Println(<<PrintsA, Fails, PrintsB>>), stdout)
       IN  /\ r.err[1].m = "failed to eval argument"
           /\ r.err[1].n = 1
           /\ Wrote(r) = << <<"a">> >>
    /\ LET r == EvalExpr(Println(<<PrintsA, PrintsB, Fails>>), stdout)
       IN  /\ r.err[1].m = "failed to eval argument"
           /\ r.err[1].n = 2
           /\ Wrote(r) = << <<"a">>, <<"b">> >>
    /\ \A k \in LogOf("misc", "Order") :
          /\ log[k].out = << <<"a">>, <<"b">>, <<"a">> >>
          /\ Layers(log[k].err, 3) = << <<"line: failed to eval stmt", 73>>,
                                        <<"failed to eval expr", 0>>,
                                        <<"failed to eval argument", 1>> >>

C15_Witness ==
    /\ LogOf("misc", "Order") # {}
    /\ pc = "run"
    /\ cur.entrypoint = "Order"
    /\ Stmt.line = 73
    /\ Wrote(EvalExpr(Stmt.x, stdout)) = << <<"a">> >>

\* Integer literals to add.
IntTexts == {<<"0">>, <<"1">>, <<"2">>, <<"1", "0">>}

\* C16: integer addition stays within the kind of integer literals.  The
\* sum of two integer values has the kind a literal has, so a + b + c of
\* any three literals evaluates, without error, to the integer a + b + c;
\* and the script Sum, which adds 3 to the sum it has bound, prints 3 and 6.
C16_Closed ==
    /\ \A a \in IntTexts, b \in IntTexts, c \in IntTexts :
          LET lit == EvalExpr(IntLit(a), stdout)
              ab == EvalExpr(Add(IntLit(a), IntLit(b)), stdout)
              abc == EvalExpr(Add(Add(IntLit(a), IntLit(b)), IntLit(c)), stdout)
          IN  /\ ab.err = NilErr
              /\ ab.v.kind = lit.v.kind
              /\ abc.err = NilErr
              /\ abc.v.n = DecimalValue(a) + DecimalValue(b) + DecimalValue(c)
    /\ \A k \in LogOf("misc", "Sum") :
          log[k].err = NilErr /\ log[k].out = << <<"3">>, <<"6">> >>

\* The packages the host backs, by short name, and what each exports.
HostExports ==
    [n \in {"fmt", "strings"} |->
        IF n = "fmt" THEN [e \in {"Println"} |-> FuncV("fmt.Println")]
        ELSE [e \in {"ToUpper"} |-> FuncV("strings.ToUpper")]]

\* A step keeps every package, its name, path and exports, and every file
\* descriptor; it adds no package but main, and no file but to main.
RegistryKept ==
    /\ DOMAIN packages' \subseteq DOMAIN packages \cup {MainPath}
    /\ \A p \in DOMAIN packages :
          /\ p \in DOMAIN packages'
          /\ packages'[p].Name = packages[p].Name
          /\ packages'[p].Path = packages[p].Path
          /\ packages'[p].Decls = packages[p].Decls
          /\ DOMAIN packages[p].Files \subseteq DOMAIN packages'[p].Files
          /\ p # MainPath => packages'[p] = packages[p]

\* C17: the registry after construction.  In every state each host package
\* is there under its short path and under its full path, with the same
\* exports under both, the ones it was built with; the only other package
\* is main, which exports nothing; and every step keeps the registry but
\* for the creation of main and the files added to it.
C17_Registry ==
    /\ [](/\ DOMAIN packages \ {MainPath} =
               {<<n>> : n \in DOMAIN HostExports}
               \cup {StdlibPrefix \o <<n>> : n \in DOMAIN HostExports}
           /\ \A n \in DOMAIN HostExports :
                 /\ packages[<<n>>].Decls = HostExports[n]
                 /\ packages[StdlibPrefix \o <<n>>].Decls = packages[<<n>>].Decls
                 /\ packages[<<n>>].Files = <<>>
                 /\ packages[StdlibPrefix \o <<n>>].Files = <<>>
           /\ MainPath \in DOMAIN packages => packages[MainPath].Decls = <<>>)
    /\ [][RegistryKept]_vars

C17_Witness ==
    /\ Len(log) = 2
    /\ MainPath \in DOMAIN packages
    /\ Cardinality(DOMAIN packages[MainPath].Files) = 2
    /\ \E k \in LogOf("stdlib", "main") : log[k].err = NilErr
    /\ \E k \in LogOf("edited", "Baz") : log[k].err = NilErr
    /\ Cardinality(DOMAIN packages) = 5

\* The callables there are: the exports of the registry and the funcs bound
\* in the scope.
Callables ==
    {packages[p].Decls[n] : <<p, n>> \in
        {<<q, m>> \in (DOMAIN packages) \X Exports : m \in DOMAIN packages[q].Decls}}
    \cup {frames[i].vars[n] : <<i, n>> \in
        {<<j, m>> \in (1..Len(frames)) \X Names :
            m \in DOMAIN frames[j].vars /\ frames[j].vars[m].kind = "func"}}

\* Argument lists: none, one string, one integer, two strings, and the
\* invalid marker.
ArgLists ==
    {<<>>, <<StringV(<<"a">>)>>, <<IntV(1)>>,
     <<StringV(<<"a">>), StringV(<<"b">>)>>, <<zero>>}

\* The arguments fit the callee: any number of values for the printing
\* functions, one string for ToUpper; the invalid marker fits nothing.
Fits(rfn, args) ==
    /\ \A i \in 1..Len(args) : IsValid(args[i])
    /\ rfn.fn = "strings.ToUpper" => Len(args) = 1 /\ args[1].kind = "string"

\* C18: calling a callable gives a value, no value, or an error.  For every
\* callable and argument list the invocation does not abort, and when the
\* arguments do not fit the callee it returns an error; so a statement whose
\* expression is a qualified call never aborts the run.
C18_Convention ==
    /\ \A rfn \in Callables, args \in ArgLists :
          LET r == Invoke(rfn, args, stdout)
          IN  /\ ~r.panic
              /\ ~Fits(rfn, args) => r.err # NilErr
    /\ AtStmt /\ Stmt.t = "*ast.AssignStmt" /\ Len(Stmt.rhs) = 1 =>
          ~EvalExpr(Stmt.rhs[1], stdout).panic

\* The outermost message of an error, none for no error.
Message(e) == IF e = NilErr THEN "" ELSE e[1].m

\* The identifiers that hold booleans, and the two operators.
Bools == {Ident("true"), Ident("false")}
Or(x, y) == BinaryExpr(x, "LOR", y)
And(x, y) == BinaryExpr(x, "LAND", y)

\* C19: || and && evaluate both operands, left then right, whatever the
\* left one is.  With a boolean on the left, a right operand that fails
\* makes the expression fail and one that prints has printed (its integer
\* then fails the equal-kind check); two booleans give their disjunction or
\* conjunction; two strings or two integers give "unsupported types".  The
\* script Logic prints true false for true || false and true && false, and
\* then the b of true || println("b") before that statement fails.
C19_NoShortCircuit ==
    /\ \A l \in Bools :
          LET lv == EvalExpr(l, stdout)
          IN  /\ lv.err = NilErr /\ lv.v.kind = "bool"
              /\ \A op \in {"LOR", "LAND"} :
                    /\ LET r == EvalExpr(BinaryExpr(l, op, Fails), stdout)
                       IN  Message(r.err) = "failed to eval binary expr rhs"
                    /\ LET r == EvalExpr(BinaryExpr(l, op, PrintsB), stdout)
                       IN  /\ Wrote(r) = << <<"b">> >>
                           /\ Message(r.err) = "invalid reflect.Value"
                    /\ LET r == EvalExpr(BinaryExpr(PrintsA, op, PrintsB), stdout)
                       IN  /\ Wrote(r) = << <<"a">>, <<"b">> >>
                           /\ Message(r.err) = "unsupported types"
              /\ \A m \in Bools :
                    LET mv == EvalExpr(m, stdout)
                    IN  /\ EvalExpr(Or(l, m), stdout) = Ok(BoolV(lv.v.b \/ mv.v.b), stdout)
                        /\ EvalExpr(And(l, m), stdout) = Ok(BoolV(lv.v.b /\ mv.v.b), stdout)
    /\ \A x \in BOOLEAN, y \in BOOLEAN :
          /\ applyOp("LOR", BoolV(x), BoolV(y)) = [v |-> BoolV(x \/ y), err |-> NilErr]
          /\ applyOp("LAND", BoolV(x), BoolV(y)) = [v |-> BoolV(x /\ y), err |-> NilErr]
    /\ \A op \in {"LOR", "LAND"} :
          /\ Message(applyOp(op, StringV(<<"a">>), StringV(<<"b">>)).err) = "unsupported types"
          /\ Message(applyOp(op, IntV(1), IntV(0)).err) = "unsupported types"
    /\ \A k \in LogOf("misc", "Logic") :
          /\ Len(log[k].out) = 2
          /\ log[k].out[2] = <<"b">>
          /\ Layers(log[k].err, 3) = << <<"line: failed to eval stmt", 79>>,
                                        <<"failed to eval expr", 0>>,
                                        <<"invalid reflect.Value", 0>> >>

C19_Witness ==
    /\ \E k \in LogOf("misc", "Logic") :
          log[k].out = << <<"t", "r", "u", "e", " ", "f", "a", "l", "s", "e">>, <<"b">> >>
    /\ AtStmt
    /\ cur.entrypoint = "Logic"
    /\ Stmt.line = 79
    /\ EvalExpr(Stmt.x.x, stdout).v = BoolV(TRUE)

\* The path an import names, without the quotes of its literal, and the
\* alias it gives: its name if it has one, else what follows the last "/".
PathOf(im) == SubSeq(im.path, 2, Len(im.path) - 1)
AliasOf(im) ==
    IF im.name # "" THEN im.name
    ELSE IF PathOf(im) = <<>> \/ Last(PathOf(im)) = "/" THEN ""
    ELSE Last(PathOf(im))

\* The table is the one of these imports: its aliases are theirs, and an
\* alias has the path of the last import that gives it.
TableOf(table, imports) ==
    /\ DOMAIN table = {AliasOf(imports[i]) : i \in 1..Len(imports)}
    /\ \A a \in DOMAIN table :
          LET is == {i \in 1..Len(imports) : AliasOf(imports[i]) = a}
              latest == CHOOSE i \in is : \A j \in is : j <= i
          IN  table[a] = PathOf(imports[latest])

====
